---- MODULE Spec2Model ----
(***************************************************************************)
(* Model of the sample Teams folder generator.                             *)
(*                                                                         *)
(* Two script variants are modelled:                                       *)
(*   "test"   : src/test.py                                                *)
(*   "create" : src/create_sample_teams_structure.py                       *)
(*                                                                         *)
(* The file system is a set of directories and a map from file paths to    *)
(* contents.  A path is a sequence of names; a name is a record            *)
(* [stem, suffix] as pathlib splits it, and a stem is the sequence of the  *)
(* parts the code joins with "_".  Japanese literals of the source are     *)
(* written in Latin letters:                                               *)
(*   chosa = 調査, sekkei = 設計, seizo = 製造, UDsakusei = UD作成,        *)
(*   UDshoka = UD消化, SDsakusei = SD作成, SDshoka = SD消化,               *)
(*   ChosaKentoSho = 調査検討書, KinoSekkeiSho = 機能設計書,               *)
(*   TantaiShikenShiyoSho = 単体試験仕様書,                                *)
(*   TantaiShikenSeisekiSho = 単体試験成績書,                              *)
(*   KetsugoShikenShiyoSho = 結合試験仕様書,                               *)
(*   KetsugoShikenSeisekiSho = 結合試験成績書,                             *)
(*   ShikenKekkaHokokuSho = 試験結果報告書, ChosaB = 調査B,                *)
(*   Seikabutsu = 成果物, NaibuReview = 内部レビュー,                      *)
(*   GaibuReview = 外部レビュー, ReviewChecklist = レビューチェックリスト, *)
(*   ReviewKirokuhyo = レビュー記録表, shanai = 社内, shagai = 社外,       *)
(*   1kaime = 1回目, 2kaime = 2回目.                                       *)
(***************************************************************************)
EXTENDS Integers, Sequences, FiniteSets, TLC

VARIABLES
    dirs,      \* set of directory paths that exist
    files,     \* function: file path -> content
    pc,        \* position of the running script ("idle" between runs)
    variant,   \* which script is run: "test" or "create"
    writer,    \* behaviour of Workbook.save: "ok", "broken" or "flaky"
    cfg,       \* the ConfigParser object of the current run
    today,     \* datetime.date.today() of the current run
    i,         \* index into PROCESS_MAP of the phase being processed
    j,         \* index into the phase's list of main deliverables
    stems,     \* main_file_stem_for_review
    ext1,      \* created_ext1_folder
    result,    \* how the last run ended
    runs,      \* number of runs started
    nfail,     \* number of Workbook.save failures so far
    failed,    \* paths whose latest writer call had a failing save
    order,     \* phase codes whose folder was made in this run, in order
    dates,     \* the dates of the runs so far
    before     \* what the current run found when it started

vars == <<dirs, files, pc, variant, writer, cfg, today, i, j, stems, ext1,
          result, runs, nfail, failed, order, dates, before>>

-----------------------------------------------------------------------------
(* Bounds *)

MaxRuns == 2
MaxFailures == 1

-----------------------------------------------------------------------------
(* Catalogs *)

FILE_TYPE_MAIN == <<"int", 1>>
FILE_TYPE_REVIEW_CHECKLIST == <<"int", 2>>
FILE_TYPE_REVIEW_MINUTES == <<"int", 3>>
FILE_TYPE_PYTHON == <<"int", 4>>

\* A catalog whose entries are not in code order.
PROCESS_NUMS_swapped == <<"030", "050", "040", "060", "070", "080", "090">>

\* The keys of PROCESS_MAP in the order the loop takes them (dict order).
PROCESS_NUMS == <<"030", "040", "050", "060", "070", "080", "090">>

PROCESS_MAP ==
    [p \in {PROCESS_NUMS[k] : k \in 1..Len(PROCESS_NUMS)} |->
        CASE p = "030" -> "chosa"
          [] p = "040" -> "sekkei"
          [] p = "050" -> "seizo"
          [] p = "060" -> "UDsakusei"
          [] p = "070" -> "UDshoka"
          [] p = "080" -> "SDsakusei"
          [] p = "090" -> "SDshoka"]

\* A catalog in which phase 050 has a document like the other phases.
PROCESS_FILES_doc ==
    [p \in {"030", "040", "050", "060", "070", "080", "090"} |->
        IF p = "090"
        THEN <<[main |-> "KetsugoShikenSeisekiSho", title_key |-> "sys_test_rst", type |-> FILE_TYPE_MAIN],
               [main |-> "ShikenKekkaHokokuSho", title_key |-> "test_rst_report", type |-> FILE_TYPE_MAIN]>>
        ELSE <<[main |-> "xxx", title_key |-> "research", type |-> FILE_TYPE_MAIN]>>]

\* PROCESS_FILES of test.py.  The single-file phases (a dict in the source)
\* and the two-file phase "090" (a list) are both lists of file_data here;
\* a missing "type" reads as FILE_TYPE_MAIN, as .get("type", FILE_TYPE_MAIN).
PROCESS_FILES ==
    [p \in DOMAIN PROCESS_MAP |->
        CASE p = "030" -> <<[main |-> "ChosaKentoSho", title_key |-> "research", type |-> FILE_TYPE_MAIN]>>
          [] p = "040" -> <<[main |-> "KinoSekkeiSho", title_key |-> "sys_design", type |-> FILE_TYPE_MAIN]>>
          [] p = "050" -> <<[main |-> "xxx", title_key |-> "", type |-> FILE_TYPE_PYTHON]>>
          [] p = "060" -> <<[main |-> "TantaiShikenShiyoSho", title_key |-> "unit_test_doc", type |-> FILE_TYPE_MAIN]>>
          [] p = "070" -> <<[main |-> "TantaiShikenSeisekiSho", title_key |-> "unit_test_rst", type |-> FILE_TYPE_MAIN]>>
          [] p = "080" -> <<[main |-> "KetsugoShikenShiyoSho", title_key |-> "sys_test_doc", type |-> FILE_TYPE_MAIN]>>
          [] p = "090" -> <<[main |-> "KetsugoShikenSeisekiSho", title_key |-> "sys_test_rst", type |-> FILE_TYPE_MAIN],
                            [main |-> "ShikenKekkaHokokuSho", title_key |-> "test_rst_report", type |-> FILE_TYPE_MAIN]>>]

\* FILE_TYPE of each script: test.py keys it by int, the other by str.
FILE_TYPE(v) ==
    IF v = "test"
    THEN {<<"int", 1>>, <<"int", 2>>, <<"int", 3>>}
    ELSE {<<"str", 1>>, <<"str", 2>>, <<"str", 3>>}

\* A slip in the list of externally reviewed phases: "060" for "080".
EXTERNAL_REVIEW_PHASES_fourth == {"030", "040", "060", "090"}

\* The phases that get external review cycles.
EXTERNAL_REVIEW_PHASES == {"030", "040", "080", "090"}

-----------------------------------------------------------------------------
(* Dates *)

IsLeap(y) == (y % 4 = 0 /\ y % 100 # 0) \/ y % 400 = 0

DaysInMonth(y, m) ==
    IF m = 2 THEN (IF IsLeap(y) THEN 29 ELSE 28)
    ELSE IF m \in {4, 6, 9, 11} THEN 30 ELSE 31

PrevDay(d) ==
    IF d[3] > 1 THEN <<d[1], d[2], d[3] - 1>>
    ELSE IF d[2] > 1 THEN <<d[1], d[2] - 1, DaysInMonth(d[1], d[2] - 1)>>
    ELSE <<d[1] - 1, 12, 31>>

RECURSIVE MinusDays(_, _)
MinusDays(d, n) == IF n = 0 THEN d ELSE MinusDays(PrevDay(d), n - 1)

\* date_obj.strftime("%Y%m%d")
Strftime(d) == ToString(d[1] * 10000 + d[2] * 100 + d[3])

\* f"{current_year}_{current_quarter}Q"
QuarterFolder(d) ==
    ToString(d[1]) \o "_" \o ToString(((d[2] - 1) \div 3) + 1) \o "Q"

\* A slip in the sampled dates: the second internal review on the day of
\* the first, the second external review on the day of the first.
DATE_SAMPLES_same(d) ==
    [date1 |-> MinusDays(d, 7), date2 |-> MinusDays(d, 7),
     date3 |-> MinusDays(d, 3), date4 |-> MinusDays(d, 3)]

DATE_SAMPLES(d) ==
    [date1 |-> MinusDays(d, 7), date2 |-> MinusDays(d, 5),
     date3 |-> MinusDays(d, 3), date4 |-> MinusDays(d, 1)]

\* The value of today before the first run.
NoDate == <<0, 0, 0>>

\* Days on which the script is run.
Dates == {<<2024, 3, 4>>, <<2024, 3, 6>>}

-----------------------------------------------------------------------------
(* Paths and the file system *)

DirName(s) == [stem |-> <<s>>, suffix |-> ""]
FileName(stem, suffix) == [stem |-> stem, suffix |-> suffix]

Parent(p) == SubSeq(p, 1, Len(p) - 1)
Last(p) == p[Len(p)]
Prefixes(p) == {SubSeq(p, 1, k) : k \in 1..Len(p)}

\* The root of the file system always exists.
IsDir(f, p) == p = <<>> \/ p \in f.dirs
IsFile(f, p) == p \in DOMAIN f.files

Raise(f, e) == [f EXCEPT !.err = e]

\* Path.mkdir(parents=..., exist_ok=...)
Mkdir(f, p, parents, exist_ok) ==
    IF f.err # "" THEN f
    ELSE IF IsFile(f, p) THEN Raise(f, "FileExistsError")
    ELSE IF IsDir(f, p) THEN (IF exist_ok THEN f ELSE Raise(f, "FileExistsError"))
    ELSE IF \E q \in Prefixes(Parent(p)) : IsFile(f, q) THEN Raise(f, "NotADirectoryError")
    ELSE IF IsDir(f, Parent(p)) THEN [f EXCEPT !.dirs = @ \cup {p}]
    ELSE IF parents THEN [f EXCEPT !.dirs = @ \cup Prefixes(p)]
    ELSE Raise(f, "FileNotFoundError")

\* Writing a file (Workbook.save, open(..., "w")): the parent must exist.
CanWrite(f, p) == IsDir(f, Parent(p)) /\ ~IsDir(f, p)

WriteFile(f, p, content) ==
    IF f.err # "" THEN f
    ELSE IF ~CanWrite(f, p) THEN Raise(f, "FileNotFoundError")
    ELSE [f EXCEPT !.files = [q \in DOMAIN @ \cup {p} |-> IF q = p THEN content ELSE @[q]]]

\* Path.touch(): creates an empty file, leaves an existing one as it is.
Touch(f, p) ==
    IF f.err # "" THEN f
    ELSE IF IsFile(f, p) THEN f
    ELSE WriteFile(f, p, [fmt |-> "empty"])

-----------------------------------------------------------------------------
(* Configuration *)

TitleKeys ==
    {"research", "sys_design", "unit_test_doc", "unit_test_rst",
     "sys_test_doc", "sys_test_rst", "test_rst_report",
     "review_checklist", "review_minutes"}

FullTitle == [k \in TitleKeys |-> "T:" \o k]

Without(fn, k) == [x \in DOMAIN fn \ {k} |-> fn[x]]

FullConfig ==
    [Paths |-> [sample_teams_root |-> "out"],
     Project |-> [project_name |-> "P1", item_name |-> "I1"],
     title |-> FullTitle]

\* A config.ini with every required key and every title the scripts look up
\* (test.py, the comment of the main block).
ValidConfigs == {FullConfig}

\* Required keys present, one title missing or no [title] section at all.
TitleGapConfigs ==
    {[FullConfig EXCEPT !.title = Without(FullTitle, "research")],
     Without(FullConfig, "title")}

\* A required section or key is missing.
BrokenConfigs ==
    {Without(FullConfig, "Paths"),
     [FullConfig EXCEPT !.Paths = Without(@, "sample_teams_root")],
     Without(FullConfig, "Project"),
     [FullConfig EXCEPT !.Project = Without(@, "project_name")],
     [FullConfig EXCEPT !.Project = Without(@, "item_name")]}

Configs == ValidConfigs \cup TitleGapConfigs \cup BrokenConfigs

\* config[s][k] raises KeyError unless HasOption(c, s, k)
HasSection(c, s) == s \in DOMAIN c
HasOption(c, s, k) == HasSection(c, s) /\ k \in DOMAIN c[s]

HasRequired(c) ==
    /\ HasOption(c, "Paths", "sample_teams_root")
    /\ HasOption(c, "Project", "project_name")
    /\ HasOption(c, "Project", "item_name")

-----------------------------------------------------------------------------
(* Strings *)

RECURSIVE Join(_, _)
Join(toks, sep) ==
    IF Len(toks) = 0 THEN ""
    ELSE IF Len(toks) = 1 THEN toks[1]
    ELSE toks[1] \o sep \o Join(Tail(toks), sep)

\* str.lower(): only the Latin letters of the source's strings change.
Lower(t) ==
    CASE t = "P1" -> "p1"
      [] t = "I1" -> "i1"
      [] t = "ChosaB" -> "Chosab"
      [] OTHER -> t

ShoTokens ==
    {"ChosaKentoSho", "KinoSekkeiSho", "TantaiShikenShiyoSho",
     "TantaiShikenSeisekiSho", "KetsugoShikenShiyoSho",
     "KetsugoShikenSeisekiSho", "ShikenKekkaHokokuSho"}

\* str.replace("書", "")
RemoveSho(t) ==
    CASE t = "ChosaKentoSho" -> "ChosaKento"
      [] t = "KinoSekkeiSho" -> "KinoSekkei"
      [] t = "TantaiShikenShiyoSho" -> "TantaiShikenShiyo"
      [] t = "TantaiShikenSeisekiSho" -> "TantaiShikenSeiseki"
      [] t = "KetsugoShikenShiyoSho" -> "KetsugoShikenShiyo"
      [] t = "KetsugoShikenSeisekiSho" -> "KetsugoShikenSeiseki"
      [] t = "ShikenKekkaHokokuSho" -> "ShikenKekkaHokoku"
      [] OTHER -> t

-----------------------------------------------------------------------------
(* The placeholder file writer *)

None == <<>>

FallbackContent == [fmt |-> "text"]

\* The cells the writer fills in for a file type.
Workbook(type, title) ==
    [fmt |-> "xlsx",
     sheet |-> CASE type = FILE_TYPE_MAIN -> "main"
                 [] type = FILE_TYPE_REVIEW_CHECKLIST -> "checklist"
                 [] type = FILE_TYPE_REVIEW_MINUTES -> "minutes"
                 [] OTHER -> "unknown",
     title |-> title]

\* A writer without the except clause: a failing save raises to the caller.
SaveOrFallback_raise(f, content, file_path, bad) ==
    IF ~bad /\ CanWrite(f, file_path)
    THEN [f |-> [WriteFile(f, file_path, content) EXCEPT !.failed = @ \ {file_path}],
          ret |-> TRUE]
    ELSE [f |-> [Raise(f, "Exception") EXCEPT !.failed = @ \cup {file_path}],
          ret |-> FALSE]

\* The try block of the writer: wb.save(file_path) and, when it raises, the
\* plain-text fallback written with open(file_path, "w").
SaveOrFallback(f, content, file_path, bad) ==
    IF ~bad /\ CanWrite(f, file_path)
    THEN [f |-> [WriteFile(f, file_path, content) EXCEPT !.failed = @ \ {file_path}],
          ret |-> TRUE]
    ELSE LET g == WriteFile(f, file_path, FallbackContent)
         IN  [f |-> IF g.err = "" THEN [g EXCEPT !.failed = @ \cup {file_path}] ELSE g,
              ret |-> FALSE]

\* test.py: returns True when the workbook was saved.
create_dummy_excel_file(f, type, title, file_path, bad) ==
    IF type[1] # "int" \/ type \notin FILE_TYPE("test")
    THEN [f |-> f, ret |-> FALSE]
    ELSE SaveOrFallback(f, Workbook(type, title), file_path, bad)

\* The kind validation of the writers: isinstance(type, int) in test.py,
\* isinstance(type, str) in the older script, and type in FILE_TYPE.
KindError(v, type) ==
    type[1] # (IF v = "test" THEN "int" ELSE "str") \/ type \notin FILE_TYPE(v)

\* create_sample_teams_structure.py: the TypeError or ValueError of the
\* validation is caught and logged, and the function goes on to the save.
create_empty_excel_file(f, type, title, file_path, bad) ==
    SaveOrFallback(f, Workbook(type, title), file_path, bad).f

\* create_sample_teams_structure.py: the kind passed for every document.
type_main == <<"int", 1>>

\* test.py
create_file_with_title(f, file_type, base_dir, file_prefix, config, project_name, item_name, specific_title_key, bad) ==
    LET f1 == Mkdir(f, base_dir, TRUE, TRUE)
    IN
    IF f1.err # "" THEN [f |-> f1, ret |-> None]
    ELSE IF file_type = FILE_TYPE_PYTHON
    THEN LET file_path == Append(base_dir, FileName(file_prefix, ".py"))
             f2 == Touch(f1, file_path)
         IN  [f |-> f2, ret |-> IF f2.err = "" THEN file_path ELSE None]
    ELSE
        LET title_key ==
                IF specific_title_key # "" THEN specific_title_key
                ELSE Join([k \in 1..Len(file_prefix) |-> Lower(file_prefix[k])], "")
        IN
        IF ~HasSection(config, "title")
        THEN [f |-> Raise(f1, "KeyError"), ret |-> None]
        ELSE
            LET title_from_config ==
                    IF title_key \in DOMAIN config["title"]
                    THEN config["title"][title_key]
                    ELSE Join(file_prefix, "_")
                file_path ==
                    Append(base_dir,
                           FileName(file_prefix \o <<project_name, item_name>>, ".xlsx"))
                w == create_dummy_excel_file(f1, file_type, title_from_config,
                                             file_path, bad)
            IN  [f |-> w.f, ret |-> IF w.f.err = "" /\ w.ret THEN file_path ELSE None]

\* Path.stem: main_file_stem_for_review holds the stems of the written paths.
Stem(file_path) == Last(file_path).stem

\* The title key create_review_files derives from a stem.
InferredTitleKey(main_stem) ==
    IF main_stem[1] = "KetsugoShikenSeisekiSho" THEN "sys_test_rst"
    ELSE IF main_stem[1] = "ShikenKekkaHokokuSho" THEN "test_rst_report"
    ELSE IF \E k \in 1..Len(main_stem) : main_stem[k] \in ShoTokens
    THEN Join([k \in 1..Len(main_stem) |-> Lower(RemoveSho(main_stem[k]))], "_")
    ELSE Join([k \in 1..Len(main_stem) |-> Lower(main_stem[k])], "_")

\* The loop over main_file_path_stems, from the k-th stem on.  The call for
\* the k-th stem is the k-th writer call of create_review_files.
RECURSIVE CopyMains(_, _, _, _, _, _, _, _)
CopyMains(f, date_folder, main_stems, k, config, project_name, item_name, bad) ==
    IF k > Len(main_stems) \/ f.err # "" THEN f
    ELSE CopyMains(
            create_file_with_title(f, FILE_TYPE_MAIN, date_folder, main_stems[k],
                                   config, project_name, item_name,
                                   InferredTitleKey(main_stems[k]), k \in bad).f,
            date_folder, main_stems, k + 1, config, project_name, item_name, bad)

\* test.py; bad is the set of the writer calls whose save fails.
create_review_files(f, base_folder, date_obj, suffix, config, project_name, item_name, p_num, p_name, main_file_path_stems, bad) ==
    LET date_folder == Append(base_folder, DirName(Strftime(date_obj)))
        n == Len(main_file_path_stems)
        f1 == Mkdir(f, date_folder, FALSE, TRUE)
        f2 == CopyMains(f1, date_folder, main_file_path_stems, 1, config,
                        project_name, item_name, bad)
        f3 == create_file_with_title(f2, FILE_TYPE_REVIEW_CHECKLIST, date_folder,
                                     <<"ReviewChecklist", p_num>> \o suffix, config,
                                     project_name, item_name, "review_checklist",
                                     (n + 1) \in bad).f
        f4 == create_file_with_title(f3, FILE_TYPE_REVIEW_MINUTES, date_folder,
                                     <<"ReviewKirokuhyo", p_name>> \o suffix, config,
                                     project_name, item_name, "review_minutes",
                                     (n + 2) \in bad).f
    IN  [f |-> f4, ret |-> date_folder]

-----------------------------------------------------------------------------
(* The state of a run *)

\* The file system as the operators above take it.
FS == [dirs |-> dirs, files |-> files, failed |-> failed, err |-> ""]

sample_teams_root(c) == <<DirName(c["Paths"]["sample_teams_root"])>>
project_root(c) ==
    sample_teams_root(c) \o <<DirName(c["Project"]["project_name"]),
                              DirName(c["Project"]["item_name"])>>
teams_base_path(c, d) == Append(project_root(c), DirName(QuarterFolder(d)))

\* f"{p_num}.{p_name}"
PhaseFolder(p_num) == DirName(p_num \o "." \o PROCESS_MAP[p_num])
process_dir(c, d, p_num) == Append(teams_base_path(c, d), PhaseFolder(p_num))
results_dir(c, d, p_num) == Append(process_dir(c, d, p_num), DirName("Seikabutsu"))
internal_review_dir(c, d, p_num) == Append(results_dir(c, d, p_num), DirName("NaibuReview"))
external_review_dir(c, d, p_num) == Append(results_dir(c, d, p_num), DirName("GaibuReview"))

p_num == PROCESS_NUMS[i]
p_name == PROCESS_MAP[p_num]
project_name == cfg["Project"]["project_name"]
item_name == cfg["Project"]["item_name"]

DateLeq(a, b) ==
    \/ a[1] < b[1]
    \/ a[1] = b[1] /\ a[2] < b[2]
    \/ a[1] = b[1] /\ a[2] = b[2] /\ a[3] <= b[3]

\* The save outcomes the environment may produce for n writer calls: with a
\* writer that is "ok" every save succeeds, with a "broken" one (openpyxl
\* cannot write at all) every save fails, and a "flaky" one fails on any
\* calls, up to MaxFailures of them.
BadSets(n) ==
    CASE writer = "ok" -> {{}}
      [] writer = "broken" -> {1..n}
      [] OTHER -> {b \in SUBSET (1..n) : nfail + Cardinality(b) <= MaxFailures}

Count(bad) == IF writer = "flaky" THEN nfail + Cardinality(bad) ELSE nfail

\* Runs on one output tree: re-runs are followed with the writers that
\* behave the same on every call, a flaky writer for a single run.
RunLimit == IF writer = "flaky" THEN 1 ELSE MaxRuns

\* The writer a run may meet: the one of the run before, or a working one
\* after a broken one (openpyxl is installed or repaired between two runs).
Writers == IF writer = "broken" THEN {"broken", "ok"} ELSE {writer}

\* What a run finds when it starts: the outcome, the configuration and the
\* date of the run before it, and the paths that run left in the tree.
Snapshot ==
    [result |-> result, cfg |-> cfg, today |-> today, writer |-> writer,
     dirs |-> dirs, paths |-> DOMAIN files]

\* Store the file system a step has produced; an exception ends the run.
Store(f, next) ==
    /\ dirs' = f.dirs
    /\ files' = f.files
    /\ failed' = f.failed
    /\ IF f.err # ""
       THEN /\ pc' = "idle"
            /\ result' = f.err
            /\ i' = 0 /\ j' = 0 /\ stems' = <<>> /\ ext1' = None
       ELSE /\ pc' = next
            /\ result' = "running"

\* Where the loop over PROCESS_MAP goes after a phase.
NextPhase == IF i < Len(PROCESS_NUMS) THEN "phase" ELSE "finish"

Init ==
    /\ dirs = {}
    /\ files = <<>>
    /\ pc = "idle"
    /\ variant \in {"test", "create"}
    /\ writer \in {"ok", "broken", "flaky"}
    /\ cfg = FullConfig
    /\ today = NoDate
    /\ i = 0 /\ j = 0
    /\ stems = <<>>
    /\ ext1 = None
    /\ result = "none"
    /\ runs = 0
    /\ nfail = 0
    /\ failed = {}
    /\ order = <<>>
    /\ dates = {}
    /\ before = Snapshot

\* A slip in the order of the first lines: the root folder is made as soon
\* as its path is read, before the [Project] keys are looked up.
ConfigErrorReturn_root(c) ==
    /\ pc' = "idle"
    /\ result' = "config_error"
    /\ dirs' = IF HasOption(c, "Paths", "sample_teams_root")
               THEN dirs \cup {sample_teams_root(c)} ELSE dirs
    /\ UNCHANGED <<files, failed, i, j, stems, ext1, dates>>

\* The except branch of the configuration lookup: log the error and return.
ConfigErrorReturn(c) ==
    /\ pc' = "idle"
    /\ result' = "config_error"
    /\ UNCHANGED <<dirs, files, failed, i, j, stems, ext1, dates>>

\* create_sample_teams_structure(config) up to the loop over the phases.
Start(c, d, w) ==
    /\ pc = "idle"
    /\ runs < RunLimit
    /\ w \in Writers
    /\ \A e \in dates : DateLeq(e, d)
    /\ runs' = runs + 1
    /\ cfg' = c
    /\ today' = d
    /\ order' = <<>>
    /\ writer' = w
    /\ before' = Snapshot
    /\ UNCHANGED <<variant, nfail>>
    /\ IF ~HasRequired(c)
       THEN ConfigErrorReturn(c)
       ELSE LET f1 == Mkdir(FS, project_root(c), TRUE, TRUE)
                f2 == Mkdir(f1, teams_base_path(c, d), FALSE, TRUE)
            IN  /\ Store(f2, "phase")
                /\ dates' = dates \cup {d}
                /\ IF f2.err = ""
                   THEN i' = 1 /\ j' = 0 /\ stems' = <<>> /\ ext1' = None
                   ELSE TRUE

\* The loop body without process_dir.mkdir(exist_ok=True): the folder of the
\* phase is left to whoever writes into it.
MakePhase_nomkdir ==
    /\ pc = "phase"
    /\ LET f1 == FS
       IN  /\ Store(f1, "main")
           /\ IF f1.err = "" THEN j' = 1 /\ stems' = <<>> /\ UNCHANGED <<i, ext1>> ELSE TRUE
    /\ order' = Append(order, p_num)
    /\ UNCHANGED <<variant, writer, before, cfg, today, runs, nfail, dates>>

\* The head of the loop body: the phase folder.
MakePhase ==
    /\ pc = "phase"
    /\ LET f1 == Mkdir(FS, process_dir(cfg, today, p_num), FALSE, TRUE)
       IN  /\ Store(f1, "main")
           /\ IF f1.err = "" THEN j' = 1 /\ stems' = <<>> /\ UNCHANGED <<i, ext1>> ELSE TRUE
    /\ order' = Append(order, p_num)
    /\ UNCHANGED <<variant, writer, before, cfg, today, runs, nfail, dates>>

\* test.py: the j-th main deliverable of the phase.
MainFile(bad) ==
    /\ pc = "main"
    /\ variant = "test"
    /\ LET file_data == PROCESS_FILES[p_num][j]
           r == create_file_with_title(FS, file_data.type, process_dir(cfg, today, p_num),
                                       <<file_data.main>>, cfg, project_name, item_name,
                                       file_data.title_key, 1 \in bad)
           more == j < Len(PROCESS_FILES[p_num])
       IN  /\ bad \in BadSets(IF file_data.type = FILE_TYPE_PYTHON THEN 0 ELSE 1)
           /\ nfail' = Count(bad)
           /\ Store(r.f, IF more THEN "main" ELSE "folders")
           /\ IF r.f.err = ""
              THEN /\ stems' = IF r.ret # None THEN Append(stems, Stem(r.ret)) ELSE stems
                   /\ j' = IF more THEN j + 1 ELSE 0
                   /\ UNCHANGED <<i, ext1>>
              ELSE TRUE
    /\ UNCHANGED <<variant, writer, before, cfg, today, runs, order, dates>>

\* create_sample_teams_structure.py: the j-th main deliverable of the phase.
MainFileCreate(bad) ==
    /\ pc = "main"
    /\ variant = "create"
    /\ LET file_data == PROCESS_FILES[p_num][j]
           more == j < Len(PROCESS_FILES[p_num])
           file_path ==
               Append(process_dir(cfg, today, p_num),
                      IF p_num = "050" THEN FileName(<<"xxx">>, ".py")
                      ELSE FileName(<<file_data.main, project_name, item_name>>, ".xlsx"))
           f1 == IF p_num = "050" THEN Touch(FS, file_path)
                 ELSE IF ~HasOption(cfg, "title", file_data.title_key)
                 THEN Raise(FS, "KeyError")
                 ELSE create_empty_excel_file(FS, type_main,
                                              cfg["title"][file_data.title_key],
                                              file_path, 1 \in bad)
       IN  /\ bad \in BadSets(IF p_num = "050" THEN 0 ELSE 1)
           /\ nfail' = Count(bad)
           /\ Store(f1, IF more THEN "main" ELSE NextPhase)
           /\ IF f1.err = ""
              THEN /\ j' = IF more THEN j + 1 ELSE 0
                   /\ i' = IF more \/ i = Len(PROCESS_NUMS) THEN i ELSE i + 1
                   /\ UNCHANGED <<stems, ext1>>
              ELSE TRUE
    /\ UNCHANGED <<variant, writer, before, cfg, today, runs, order, dates>>

\* test.py: the results folder and the internal review folder.
Folders ==
    /\ pc = "folders"
    /\ LET f1 == Mkdir(FS, results_dir(cfg, today, p_num), FALSE, TRUE)
           f2 == Mkdir(f1, internal_review_dir(cfg, today, p_num), FALSE, TRUE)
       IN  /\ Store(f2, "int1")
           /\ IF f2.err = "" THEN UNCHANGED <<i, j, stems, ext1>> ELSE TRUE
    /\ UNCHANGED <<variant, writer, before, cfg, today, runs, nfail, order, dates>>

\* One call of create_review_files from the loop body.
Review(at, folder, date, suffix, main_stems, bad, next, bump) ==
    /\ pc = at
    /\ LET r == create_review_files(FS, folder, date, suffix, cfg, project_name,
                                    item_name, p_num, p_name, main_stems, bad)
       IN  /\ bad \in BadSets(Len(main_stems) + 2)
           /\ nfail' = Count(bad)
           /\ Store(r.f, next)
           /\ IF r.f.err = ""
              THEN /\ ext1' = IF at = "ext1" THEN r.ret ELSE ext1
                   /\ i' = IF bump /\ i < Len(PROCESS_NUMS) THEN i + 1 ELSE i
                   /\ UNCHANGED <<j, stems>>
              ELSE TRUE
    /\ UNCHANGED <<variant, writer, before, cfg, today, runs, order, dates>>

\* test.py: the first internal review, made for every phase.
Int1(bad) ==
    Review("int1", internal_review_dir(cfg, today, p_num), DATE_SAMPLES(today).date1,
           <<"shanai", "1kaime">>, stems, bad,
           IF p_num = "030" THEN "int2" ELSE "extdir", FALSE)

\* test.py: the second internal review of "030".
Int2(bad) ==
    Review("int2", internal_review_dir(cfg, today, p_num), DATE_SAMPLES(today).date2,
           <<"shanai", "2kaime">>, stems, bad, "extdir", FALSE)

\* test.py: the external review folder.
ExtDir ==
    /\ pc = "extdir"
    /\ LET f1 == Mkdir(FS, external_review_dir(cfg, today, p_num), FALSE, TRUE)
           has == p_num \in EXTERNAL_REVIEW_PHASES
       IN  /\ Store(f1, IF has THEN "ext1" ELSE NextPhase)
           /\ IF f1.err = ""
              THEN /\ i' = IF has \/ i = Len(PROCESS_NUMS) THEN i ELSE i + 1
                   /\ UNCHANGED <<j, stems, ext1>>
              ELSE TRUE
    /\ UNCHANGED <<variant, writer, before, cfg, today, runs, nfail, order, dates>>

\* test.py: the first external review of the flagged phases.
Ext1(bad) ==
    Review("ext1", external_review_dir(cfg, today, p_num), DATE_SAMPLES(today).date3,
           <<"shagai", "1kaime">>, stems, bad,
           IF p_num = "030" THEN "variantB" ELSE NextPhase, p_num # "030")

\* test.py: the variant-named main document of "030".
VariantB(bad) ==
    /\ pc = "variantB"
    /\ LET r == create_file_with_title(FS, FILE_TYPE_MAIN, ext1, <<"ChosaB">>, cfg,
                                       project_name, item_name, "research", 1 \in bad)
       IN  /\ bad \in BadSets(1)
           /\ nfail' = Count(bad)
           /\ Store(r.f, "ext2")
           /\ IF r.f.err = "" THEN UNCHANGED <<i, j, stems, ext1>> ELSE TRUE
    /\ UNCHANGED <<variant, writer, before, cfg, today, runs, order, dates>>

\* test.py: the second external review of "030".
Ext2(bad) ==
    Review("ext2", external_review_dir(cfg, today, p_num), DATE_SAMPLES(today).date4,
           <<"shagai", "2kaime">>, <<>>, bad, NextPhase, TRUE)

\* The completion message after the loop.
Finish ==
    /\ pc = "finish"
    /\ pc' = "idle"
    /\ result' = "completed"
    /\ i' = 0 /\ j' = 0 /\ stems' = <<>> /\ ext1' = None
    /\ UNCHANGED <<dirs, files, variant, writer, before, cfg, today, runs, nfail,
                   failed, order, dates>>

AllBad == SUBSET (1..4)

Next ==
    \/ \E c \in Configs, d \in Dates, w \in {"ok", "broken", "flaky"} : Start(c, d, w)
    \/ MakePhase
    \/ \E bad \in AllBad : MainFile(bad)
    \/ \E bad \in AllBad : MainFileCreate(bad)
    \/ Folders
    \/ \E bad \in AllBad : Int1(bad)
    \/ \E bad \in AllBad : Int2(bad)
    \/ ExtDir
    \/ \E bad \in AllBad : Ext1(bad)
    \/ \E bad \in AllBad : VariantB(bad)
    \/ \E bad \in AllBad : Ext2(bad)
    \/ Finish

Spec == Init /\ [][Next]_vars

-----------------------------------------------------------------------------
(* A whole run of test.py as one operator *)

\* The save outcomes of n writer calls when every save fails or none does.
Every(n, broken) == IF broken THEN 1..n ELSE {}

\* The loop over the main deliverables of phase p, from the k-th on.
RECURSIVE MainFiles(_, _, _, _, _, _, _)
MainFiles(f, main_stems, c, d, p, k, broken) ==
    IF k > Len(PROCESS_FILES[p]) \/ f.err # "" THEN [f |-> f, stems |-> main_stems]
    ELSE LET file_data == PROCESS_FILES[p][k]
             r == create_file_with_title(f, file_data.type, process_dir(c, d, p),
                                         <<file_data.main>>, c,
                                         c["Project"]["project_name"],
                                         c["Project"]["item_name"],
                                         file_data.title_key, broken)
         IN  MainFiles(r.f, IF r.ret # None THEN Append(main_stems, Stem(r.ret)) ELSE main_stems,
                       c, d, p, k + 1, broken)

\* The body of the loop over PROCESS_MAP for phase p.
PhaseBody(f, c, d, p, broken) ==
    LET pn == c["Project"]["project_name"]
        it == c["Project"]["item_name"]
        f1 == Mkdir(f, process_dir(c, d, p), FALSE, TRUE)
        m == MainFiles(f1, <<>>, c, d, p, 1, broken)
        f2 == Mkdir(m.f, results_dir(c, d, p), FALSE, TRUE)
        f3 == Mkdir(f2, internal_review_dir(c, d, p), FALSE, TRUE)
        bad == Every(Len(m.stems) + 2, broken)
        r1 == create_review_files(f3, internal_review_dir(c, d, p), DATE_SAMPLES(d).date1,
                                  <<"shanai", "1kaime">>, c, pn, it, p, PROCESS_MAP[p],
                                  m.stems, bad).f
        r2 == IF p = "030"
              THEN create_review_files(r1, internal_review_dir(c, d, p), DATE_SAMPLES(d).date2,
                                       <<"shanai", "2kaime">>, c, pn, it, p, PROCESS_MAP[p],
                                       m.stems, bad).f
              ELSE r1
        f4 == Mkdir(r2, external_review_dir(c, d, p), FALSE, TRUE)
        e1 == create_review_files(f4, external_review_dir(c, d, p), DATE_SAMPLES(d).date3,
                                  <<"shagai", "1kaime">>, c, pn, it, p, PROCESS_MAP[p],
                                  m.stems, bad)
        vb == create_file_with_title(e1.f, FILE_TYPE_MAIN, e1.ret, <<"ChosaB">>, c, pn, it,
                                     "research", broken).f
        e2 == create_review_files(vb, external_review_dir(c, d, p), DATE_SAMPLES(d).date4,
                                  <<"shagai", "2kaime">>, c, pn, it, p, PROCESS_MAP[p],
                                  <<>>, Every(2, broken)).f
    IN  IF p \notin EXTERNAL_REVIEW_PHASES THEN f4
        ELSE IF p # "030" THEN e1.f
        ELSE e2

RECURSIVE Phases(_, _, _, _, _)
Phases(f, c, d, k, broken) ==
    IF k > Len(PROCESS_NUMS) \/ f.err # "" THEN f
    ELSE Phases(PhaseBody(f, c, d, PROCESS_NUMS[k], broken), c, d, k + 1, broken)

\* test.py: the tree a run leaves on the file system f when every save
\* succeeds (broken = FALSE) or every save fails (broken = TRUE).
create_sample_teams_structure(f, c, d, broken) ==
    IF ~HasRequired(c) THEN f
    ELSE Phases(Mkdir(Mkdir(f, project_root(c), TRUE, TRUE),
                      teams_base_path(c, d), FALSE, TRUE),
                c, d, 1, broken)

EmptyFS == [dirs |-> {}, files |-> <<>>, failed |-> {}, err |-> ""]

-----------------------------------------------------------------------------
(* Reading the generated tree *)

SubDirs(d) == {q \in dirs : Parent(q) = d}
FilesIn(d) == {q \in DOMAIN files : Parent(q) = d}

\* The last run went through to the completion message.
Completed == pc = "idle" /\ result = "completed"

\* The folders of phase p in the tree of the current run.
PhaseDir(p) == process_dir(cfg, today, p)
InternalDir(p) == internal_review_dir(cfg, today, p)
ExternalDir(p) == external_review_dir(cfg, today, p)

\* A dated cycle folder of a review folder.
CycleDir(review_dir, date) == Append(review_dir, DirName(Strftime(date)))

IsReviewRecord(q) == Last(q).stem[1] \in {"ReviewChecklist", "ReviewKirokuhyo"}

-----------------------------------------------------------------------------
(* C1 *)

\* C1 as stated: after a completed run of test.py the external review folder
\* of every phase exists, and it holds a dated cycle folder exactly for the
\* first, second, fourth and last phase of the catalog.
C1_AsStated ==
    (variant = "test" /\ writer = "ok" /\ Completed) =>
        \A k \in 1..7 :
            LET e == ExternalDir(PROCESS_NUMS[k])
            IN  /\ e \in dirs
                /\ (SubDirs(e) # {}) <=> (k \in {1, 2, 4, 7})

\* C1 amended: after a completed run of test.py the external review folder
\* of every phase exists; it holds a dated cycle folder for the phases 030,
\* 040, 080 and 090 (the first, second, sixth and last of the catalog) and
\* is empty for 050, 060 and 070.
C1_ExternalReviewPhases ==
    (variant = "test" /\ Completed) =>
        \A p \in {"030", "040", "050", "060", "070", "080", "090"} :
            LET e == ExternalDir(p)
            IN  /\ e \in dirs
                /\ FilesIn(e) = {}
                /\ IF p \in {"030", "040", "080", "090"}
                   THEN SubDirs(e) # {}
                   ELSE SubDirs(e) = {}

C1_Witness ==
    /\ variant = "test" /\ Completed
    /\ SubDirs(ExternalDir("080")) # {}
    /\ ExternalDir("060") \in dirs /\ SubDirs(ExternalDir("060")) = {}

-----------------------------------------------------------------------------
(* C2 *)

\* C2: after a completed run of test.py on a tree whose runs all had the
\* same current date, phase 030 has exactly two dated cycle folders in its
\* internal review folder and two in its external review folder; every
\* other phase has exactly one internal cycle folder, and one external
\* cycle folder if it is 040, 080 or 090 and none otherwise.
C2_CycleCounts ==
    (variant = "test" /\ Completed /\ dates = {today}) =>
        \A p \in {"030", "040", "050", "060", "070", "080", "090"} :
            /\ Cardinality(SubDirs(InternalDir(p))) = (IF p = "030" THEN 2 ELSE 1)
            /\ Cardinality(SubDirs(ExternalDir(p))) =
                  (IF p = "030" THEN 2
                   ELSE IF p \in {"040", "080", "090"} THEN 1 ELSE 0)

C2_Witness ==
    /\ variant = "test" /\ Completed /\ dates = {today} /\ runs = 2
    /\ Cardinality(SubDirs(InternalDir("030"))) = 2
    /\ Cardinality(SubDirs(ExternalDir("090"))) = 1

-----------------------------------------------------------------------------
(* C3 *)

ChosaBName == FileName(<<"ChosaB", project_name, item_name>>, ".xlsx")

\* C3 as stated: after a completed run of test.py the variant-named main
\* document of phase 030 lies in the dated folder of the second external
\* review cycle (today minus 1 day), and that folder holds nothing but the
\* checklist and the minutes beside it.
C3_AsStated ==
    (variant = "test" /\ writer = "ok" /\ Completed /\ dates = {today}) =>
        LET second == CycleDir(ExternalDir("030"), MinusDays(today, 1))
        IN  /\ Append(second, ChosaBName) \in DOMAIN files
            /\ \A q \in FilesIn(second) :
                   IsReviewRecord(q) \/ Last(q) = ChosaBName


-----------------------------------------------------------------------------
(* The steps and the whole run agree *)

\* The first run of test.py on an empty tree, taken step by step with a
\* writer that always saves or never does, leaves the tree that
\* create_sample_teams_structure computes.
StepsAgree ==
    (variant = "test" /\ pc = "idle" /\ runs = 1 /\ writer \in {"ok", "broken"}) =>
        LET g == create_sample_teams_structure(EmptyFS, cfg, today, writer = "broken")
        IN  IF g.err = ""
            THEN dirs = g.dirs /\ files = g.files /\ result \in {"completed", "config_error"}
            ELSE result = g.err

-----------------------------------------------------------------------------
(* C4 *)

\* C4 as stated: when every save of a run of test.py fails, the run leaves
\* the directories of the fully successful run with the same configuration
\* and date, and every file of that run exists, the documents as plain-text
\* fallback files.
C4_AsStated ==
    (variant = "test" /\ writer = "broken" /\ Completed /\ runs = 1) =>
        LET g == create_sample_teams_structure(EmptyFS, cfg, today, FALSE)
        IN  /\ dirs = g.dirs
            /\ DOMAIN files = DOMAIN g.files
            /\ \A q \in DOMAIN files :
                   Last(q).suffix = ".xlsx" => files[q] = FallbackContent

-----------------------------------------------------------------------------
(* C5 *)

\* C5 as stated: test.py processes phase 050 with an empty list of main
\* document stems, and after a completed run every dated cycle folder of
\* phase 050 holds the checklist and the minutes and nothing else.
C5_AsStated ==
    /\ (variant = "test" /\ pc = "int1" /\ p_num = "050") => stems = <<>>
    /\ (variant = "test" /\ writer = "ok" /\ Completed) =>
           \A c \in SubDirs(InternalDir("050")) \cup SubDirs(ExternalDir("050")) :
               /\ FilesIn(c) # {}
               /\ \A q \in FilesIn(c) : IsReviewRecord(q)


-----------------------------------------------------------------------------
(* C6 *)

\* C6: a run whose configuration lacks a required section or key reports
\* the error and returns with the directories and files as they were before
\* the call, in both scripts.
C6_NoOutputOnConfigError ==
    [][(pc = "idle" /\ runs' = runs + 1 /\ ~HasRequired(cfg')) =>
          (dirs' = dirs /\ files' = files /\ pc' = "idle" /\ result' = "config_error")]_vars

C6_Witness ==
    /\ pc = "idle" /\ result = "config_error" /\ ~HasRequired(cfg)
    /\ runs = 2 /\ dirs # {} /\ files # <<>>

-----------------------------------------------------------------------------
(* C7 *)

\* The main documents whose title key the [title] section of c lacks.
Untitled(c) ==
    {fd \in UNION {{PROCESS_FILES[p][k] : k \in 1..Len(PROCESS_FILES[p])} :
                       p \in DOMAIN PROCESS_FILES} :
        fd.type = FILE_TYPE_MAIN /\ fd.title_key \notin DOMAIN c["title"]}

PhaseOf(fd) ==
    CHOOSE p \in DOMAIN PROCESS_FILES :
        \E k \in 1..Len(PROCESS_FILES[p]) : PROCESS_FILES[p][k] = fd

\* C7 as stated: in both scripts a run whose [title] section lacks the key
\* of a main document does not raise, goes through all phases, and writes
\* that document with its name stem as the title.
C7_AsStated ==
    (pc = "idle" /\ runs > 0 /\ HasRequired(cfg) /\ HasSection(cfg, "title")) =>
        /\ result = "completed"
        /\ \A fd \in Untitled(cfg) :
               LET q == Append(PhaseDir(PhaseOf(fd)),
                               FileName(<<fd.main, project_name, item_name>>, ".xlsx"))
               IN  /\ q \in DOMAIN files
                   /\ files[q].fmt = "xlsx" => files[q].title = fd.main

-----------------------------------------------------------------------------
(* C8 *)

\* C8: whichever saves of a run fail, in both scripts each failed artifact
\* is left as a plain-text stub at its destination path, no run ends with
\* an exception other than the KeyError of a missing title, and a run with
\* a complete configuration ends with the completion message, after all
\* seven phases.
C8_FailuresDoNotAbort ==
    /\ \A q \in failed : q \in DOMAIN files /\ files[q] = FallbackContent
    /\ result \in {"none", "running", "config_error", "completed", "KeyError"}
    /\ result = "KeyError" => cfg \in TitleGapConfigs
    /\ (pc = "idle" /\ runs > 0 /\ cfg \in ValidConfigs) => result = "completed"
    /\ Completed => order = <<"030", "040", "050", "060", "070", "080", "090">>

C8_Witness ==
    /\ Completed /\ writer = "flaky" /\ cfg \in ValidConfigs
    /\ \E q \in failed : files[q] = FallbackContent
    /\ \E q \in DOMAIN files : files[q].fmt = "xlsx"

-----------------------------------------------------------------------------
(* C9 *)

\* What a step adds or rewrites.
Touched ==
    (dirs' \ dirs) \cup
    {q \in DOMAIN files' : q \notin DOMAIN files \/ files'[q] # files[q]}

\* C9: in both scripts the phase folders are made in ascending code order,
\* every step of the loop works inside the folder of the phase it is in (so
\* a phase is finished before the next folder is made), and after a run
\* with a valid configuration the time-bucket folder holds exactly the
\* seven folders <code>.<name> of the catalog.
C9_PhaseFolders ==
    /\ [](\E n \in 0..7 :
             order = SubSeq(<<"030", "040", "050", "060", "070", "080", "090">>, 1, n))
    /\ []((pc = "idle" /\ runs > 0 /\ cfg \in ValidConfigs) => result = "completed")
    /\ [](Completed =>
             /\ {Last(q).stem[1] : q \in SubDirs(teams_base_path(cfg, today))} =
                    {"030.chosa", "040.sekkei", "050.seizo", "060.UDsakusei",
                     "070.UDshoka", "080.SDsakusei", "090.SDshoka"}
             /\ Cardinality(SubDirs(teams_base_path(cfg, today))) = 7
             /\ FilesIn(teams_base_path(cfg, today)) = {})
    /\ [][pc # "idle" =>
             /\ \A q \in Touched :
                    /\ Len(q) >= 5
                    /\ SubSeq(q, 1, 5) = PhaseDir(order'[Len(order')])
             /\ pc = "phase" => order' = Append(order, PROCESS_NUMS[i])
             /\ pc # "phase" => order' = order]_vars

C9_Witness ==
    /\ Completed /\ variant = "create" /\ runs = 1
    /\ Cardinality(SubDirs(teams_base_path(cfg, today))) = 7

-----------------------------------------------------------------------------
(* C10 *)

\* C10: in both scripts, after every completed run, first or repeated, the
\* folder of phase 050 directly holds the empty file xxx.py and no other
\* file; no .xlsx file is ever put directly into it.
C10_ManufacturingFolder ==
    /\ Completed =>
           /\ FilesIn(PhaseDir("050")) = {Append(PhaseDir("050"), FileName(<<"xxx">>, ".py"))}
           /\ \A q \in FilesIn(PhaseDir("050")) : files[q] = [fmt |-> "empty"]
    /\ \A q \in DOMAIN files :
           (Len(q) = 6 /\ q[5] = DirName("050.seizo")) => Last(q).suffix # ".xlsx"

C10_Witness ==
    /\ Completed /\ runs = 2 /\ variant = "test" /\ Cardinality(dates) = 2
    /\ Append(PhaseDir("050"), FileName(<<"xxx">>, ".py")) \in DOMAIN files

-----------------------------------------------------------------------------
(* C11: running twice with the same configuration and date *)

\* The run that has just ended repeated the run before it: that one had
\* completed, with the same configuration and on the same date.
Repeated ==
    /\ pc = "idle"
    /\ runs >= 2
    /\ before.result = "completed"
    /\ before.cfg = cfg
    /\ before.today = today

\* C11, as stated: a run that repeats a completed run, with the same
\* configuration and the same current date, completes too and leaves exactly
\* the directory and file paths the first run had left: nothing is added and
\* nothing is removed.
C11_AsStated ==
    Repeated =>
        /\ result = "completed"
        /\ dirs = before.dirs
        /\ DOMAIN files = before.paths

\* What does hold of a repeated run: it completes and removes nothing, and it
\* adds nothing when its saves behave as those of the first run did.
C11_SameWriter ==
    Repeated =>
        /\ result = "completed"
        /\ before.dirs \subseteq dirs
        /\ before.paths \subseteq DOMAIN files
        /\ before.writer = writer => dirs = before.dirs /\ DOMAIN files = before.paths

C11_SameWriterWitness ==
    Repeated /\ before.writer = writer /\ before.paths # {}

-----------------------------------------------------------------------------
(* C12: the files of a review cycle folder *)

\* The phases whose main deliverables are documents.
DocPhases == {"030", "040", "060", "070", "080", "090"}

\* The dated cycle folders of phase p, but for the second external cycle
\* of "030".
CycleFolders(p) ==
    (SubDirs(InternalDir(p)) \cup SubDirs(ExternalDir(p)))
        \ {CycleDir(ExternalDir("030"), DATE_SAMPLES(today).date4)}

\* The place of a cycle folder and the number of a cycle, as a cycle label.
CycleLabels(p, fd) ==
    {<<IF Parent(fd) = InternalDir(p) THEN "shanai" ELSE "shagai", n>> :
        n \in {"1kaime", "2kaime"}}

\* The checklist and the minutes of phase p for a cycle label.
Records(p, fd, label) ==
    {Append(fd, FileName(<<"ReviewChecklist", p, label[1], label[2],
                           project_name, item_name>>, ".xlsx")),
     Append(fd, FileName(<<"ReviewKirokuhyo", PROCESS_MAP[p], label[1], label[2],
                           project_name, item_name>>, ".xlsx"))}

\* The file names of the main deliverables in the folder of phase p.
MainNames(p) == {Last(q) : q \in FilesIn(PhaseDir(p))}

\* C12, as stated: after a completed run of test.py with a valid
\* configuration, every dated cycle folder of a phase with document
\* deliverables (but the second external cycle of 030) holds exactly one
\* copy of each main deliverable of the phase under the file name that
\* deliverable has in the phase folder, one checklist named with the phase
\* code and the cycle label, and one minutes file named with the phase name
\* and the cycle label.
C12_AsStated ==
    (variant = "test" /\ writer = "ok" /\ Completed /\ dates = {today}
        /\ cfg \in ValidConfigs /\ runs = 1) =>
        \A p \in DocPhases : \A fd \in CycleFolders(p) :
            \E label \in CycleLabels(p, fd) :
                FilesIn(fd) = {Append(fd, n) : n \in MainNames(p)}
                                  \cup Records(p, fd, label)

\* What the cycle folders do hold: the copies carry the project and the item
\* twice, and the first external cycle of 030 holds the variant-named
\* document too.
C12_AsBuilt ==
    (variant = "test" /\ writer = "ok" /\ Completed /\ dates = {today}
        /\ cfg \in ValidConfigs /\ runs = 1) =>
        \A p \in DocPhases : \A fd \in CycleFolders(p) :
            \E label \in CycleLabels(p, fd) :
                FilesIn(fd) =
                    {Append(fd, FileName(n.stem \o <<project_name, item_name>>, ".xlsx")) :
                        n \in MainNames(p)}
                    \cup Records(p, fd, label)
                    \cup (IF fd = CycleDir(ExternalDir("030"), DATE_SAMPLES(today).date3)
                          THEN {Append(fd, ChosaBName)} ELSE {})

-----------------------------------------------------------------------------
(* C13: a file is written only into a folder that exists *)

\* C13: in both scripts no save, fallback write or touch is attempted in a
\* folder that is missing (it would raise FileNotFoundError, and a
\* NotADirectoryError if an ancestor were a file), every path a step writes
\* has all its ancestor folders in the tree after the step, and so every
\* file and folder of the tree lies in a folder of the tree.
C13_ParentsExist ==
    /\ [](result \notin {"FileNotFoundError", "NotADirectoryError", "FileExistsError"})
    /\ [](\A q \in dirs \cup DOMAIN files : Prefixes(Parent(q)) \subseteq dirs)
    /\ [][\A q \in Touched : Prefixes(Parent(q)) \subseteq dirs']_vars

\* A run of each kind of write: saved workbooks, a fallback text and the
\* touched placeholder, all below the seven phase folders.
C13_Witness ==
    /\ Completed /\ writer = "flaky"
    /\ \E q \in failed : files[q] = FallbackContent /\ Len(q) > 5
    /\ \E q \in DOMAIN files : files[q].fmt = "xlsx" /\ Parent(q) \in dirs
    /\ \E q \in DOMAIN files : files[q].fmt = "empty" /\ Parent(q) = PhaseDir("050")

-----------------------------------------------------------------------------
(* C14: the writer after a failed kind validation *)

\* Kinds a caller may pass: catalog keys of either script and values that
\* are keys of neither.
Kinds == {<<t, k>> : t \in {"int", "str"}, k \in 0..4}

\* The writer of script v, called for a document in folder d.
WriterCall(v, f, type, d, bad) ==
    LET file_path == Append(d, FileName(<<"doc", project_name, item_name>>, ".xlsx"))
    IN  IF v = "test"
        THEN create_dummy_excel_file(f, type, "T", file_path, bad).f
        ELSE create_empty_excel_file(f, type, "T", file_path, bad)

\* C14, as stated: in both scripts a step of the run whose writer call
\* fails the kind validation leaves the file system as it was: no workbook
\* and no fallback file is written. (The older script passes type_main for
\* every document; test.py passes only kinds of its catalog.)
C14_AsStated ==
    [][(pc = "main" /\ variant = "create" /\ p_num # "050"
          /\ HasOption(cfg, "title", PROCESS_FILES[p_num][j].title_key)
          /\ KindError(variant, type_main))
       => (dirs' = dirs /\ files' = files)]_vars

\* What holds: the writer of test.py, called with a kind that fails its
\* validation for a document in the folder of the current phase, returns
\* without writing, with the save working or not.
C14_TestWriter ==
    (pc \notin {"idle", "phase"}) =>
        \A type \in Kinds, bad \in BOOLEAN :
            KindError("test", type) =>
                WriterCall("test", FS, type, PhaseDir(p_num), bad) = FS

C14_TestWriterWitness ==
    /\ pc = "main" /\ variant = "test"
    /\ \E type \in Kinds : KindError("test", type)
    /\ \E type \in Kinds : WriterCall("test", FS, type, PhaseDir(p_num), FALSE) # FS

=============================================================================
